---- MODULE Spec2Model ----
(***************************************************************************)
(* Model of tradingagents/dataflows: the DataSourceManager fallback        *)
(* policy (data_source_manager.py), the IBKR provider and its process-wide *)
(* connection handle (ibkr_utils.py), the synchronous wrapper and the       *)
(* cleanup hooks.  One synchronous caller thread drives the program; the   *)
(* broker and the Finnhub files are the environment.                       *)
(***************************************************************************)
EXTENDS Naturals, Sequences, FiniteSets, TLC

\* ------------------------------------------------------------------ bounds
\* Calendar dates are 1..MaxDate (ISO strings compare like these numbers).
MaxDate == 2
\* Threads that call get_ibkr_connection at the same time.
NumCallers == 2
Dates == 1..MaxDate
Tickers == {"AAPL", "MSFT"}
\* The kinds get_ibkr_data_in_range dispatches on, and one it does not know.
KnownKinds == {"news", "historical", "fundamentals", "company_info", "real_time"}
Kinds == KnownKinds \cup {"options"}
DataDirs == {"None", "/data"}
\* config.DATA_DIR, the default _get_finnhub_data substitutes for data_dir=None.
DATA_DIR == "DATA_DIR"

\* ------------------------------------------------------------------ values
\* Python values a fetch can yield: None, or a dict from date to payload
\* (items: the set of <<date, payload>> pairs; the payload names its provider).
None == [tag |-> "None", items |-> {}]
Dict(items) == [tag |-> "dict", items |-> items]
EmptyDict == Dict({})
\* bool(v): None and {} are falsy.
Truthy(v) == v.tag = "dict" /\ v.items # {}

\* Exceptions, by the place that raises them; NoError is "no exception".
NoError == "None"
ConnectionFailure == "ibkr:ConnectionFailure"
IBKRRequestError == "ibkr:RequestError"
FinnhubError == "finnhub:Error"
LoopClosedError == "RuntimeError:Event loop is closed"
IbkrErrors == {ConnectionFailure, IBKRRequestError}

\* Requests: ticker, start_date <= end_date, data_type, data_dir.
Requests ==
    { [ticker |-> t, start |-> s, end |-> e, kind |-> k, data_dir |-> d] :
        t \in Tickers, s \in Dates, e \in Dates, k \in Kinds, d \in DataDirs }
ValidRequests == { r \in Requests : r.start <= r.end }

\* What the environment answers to one provider call.
\*   fail: "none", "request" (the first broker request / the file read raises),
\*         "news" (reqNewsProvidersAsync or reqHistoricalNewsAsync raises)
\*   dates: the dates of the records the provider holds
Envs == [fail : {"none", "request", "news"}, dates : SUBSET Dates]

Configs == [data_source : {"finnhub", "ibkr"}, enable_fallback : BOOLEAN]

VARIABLES
    config,                 \* get_config()
    data_source_manager,    \* _data_source_manager: NoManager or a manager
    ibkr_connection,        \* _ibkr_connection: NoConnection or an IBKRConnection
    open_sessions,          \* broker sessions open, over every IBKRConnection made
    loop,                   \* the thread's current asyncio event loop
    reachable,              \* whether TWS/Gateway accepts connections
    pc,                     \* where the caller thread is
    via,                    \* the entry point of the running/last request
    mgr,                    \* self of the running/last get_data_in_range
    req,                    \* its arguments
    primary_data,           \* its locals
    primary_error,
    calls,                  \* provider invocations of the running/last request
    last                    \* the last completed operation and its outcome

mainVars == <<config, data_source_manager, ibkr_connection, open_sessions, loop,
              reachable, pc, via, mgr, req, primary_data, primary_error, calls, last>>

\* Threads inside get_ibkr_connection at the same time (no lock guards it).
VARIABLES
    race_global,            \* _ibkr_connection: 0 (None) or an index of race_objs
    race_objs,              \* every IBKRConnection these threads constructed
    race_pc,                \* where each thread is
    race_mine,              \* the object each thread constructed (0: none)
    race_ret,               \* what get_ibkr_connection returned to each thread
    race_cleaned            \* the object cleanup_ibkr_connection let go (0: none)

raceVars == <<race_global, race_objs, race_pc, race_mine, race_ret, race_cleaned>>

\* One IBKRConnection driven directly through its methods.
VARIABLES
    conn_obj,               \* the IBKRConnection
    conn_hist,              \* its latest connect attempt; a disconnect since then
    conn_last               \* the last method called on it and what it did

connVars == <<conn_obj, conn_hist, conn_last>>

vars == <<mainVars, raceVars, connVars>>

Callers == 1..NumCallers

NoManager == [exists |-> FALSE, primary_source |-> "None", enable_fallback |-> FALSE]
NoRequest == [ticker |-> "None", start |-> 0, end |-> 0, kind |-> "None", data_dir |-> "None"]

\* The outcome of an operation as its caller sees it; again: the operation is a
\* cleanup hook and the operation completed just before it was the same hook.
Running == [op |-> "running", kind |-> "none", ret |-> None, exc |-> NoError,
            again |-> FALSE]
Return(op, v) == [op |-> op, kind |-> "return", ret |-> v, exc |-> NoError,
                  again |-> FALSE]
Raise(op, e) == [op |-> op, kind |-> "raise", ret |-> None, exc |-> e,
                 again |-> FALSE]
\* The outcome of a cleanup hook that ended with exception e (NoError: returned).
Cleaned(op, e, prev) ==
    [op |-> op, kind |-> IF e = NoError THEN "return" ELSE "raise", ret |-> None,
     exc |-> e, again |-> (prev.op = op)]

\* ------------------------------------------------- ibkr_utils.IBKRConnection
\* _ibkr_connection = None
NoConnection == [exists |-> FALSE, connected |-> FALSE, session |-> FALSE]

\* IBKRConnection.__init__: the flag, and the ib client's session to the broker.
NewConnection == [exists |-> TRUE, connected |-> FALSE, session |-> FALSE]

\* The broker sessions a connection object holds.
Sessions(c) == IF c.session THEN 1 ELSE 0

connectKeepsFlag(c, up) ==
    IF up
    THEN [conn |-> [c EXCEPT !.connected = TRUE, !.session = TRUE], exc |-> NoError]
    ELSE [conn |-> c, exc |-> ConnectionFailure]

\* IBKRConnection.connect: connectAsync succeeds iff the broker is reachable;
\* a failure clears the flag and is re-raised.
connect(c, up) ==
    IF up
    THEN [conn |-> [c EXCEPT !.connected = TRUE, !.session = TRUE], exc |-> NoError]
    ELSE [conn |-> [c EXCEPT !.connected = FALSE], exc |-> ConnectionFailure]

\* IBKRConnection.disconnect: only a connected handle is disconnected.
disconnect(c) ==
    IF c.connected
    THEN [c EXCEPT !.connected = FALSE, !.session = FALSE]
    ELSE c

\* "if not self.connected: await self.connect()" at the head of every fetch.
EnsureConnected(c, up) ==
    IF ~c.connected
    THEN connect(c, up) @@ [tried |-> TRUE]
    ELSE [conn |-> c, exc |-> NoError, tried |-> FALSE]

\* What a fetch method leaves behind: the object, whether connect was attempted
\* (k: the outcome of the connect step), whether a broker request was sent, and
\* the exception raised or the value returned.
FetchResult(k, requested, e, v) ==
    [conn |-> k.conn, tried |-> k.tried, requested |-> requested, exc |-> e, val |-> v]

\* A broker request raises when the broker is gone or answers with an error.
RequestRaises(up, env) == ~up \/ env.fail = "request"

\* get_historical_data: the bars' dates; a failing request propagates.
get_historical_data(c, up, env) ==
    LET k == EnsureConnected(c, up) IN
    IF k.exc # NoError THEN FetchResult(k, FALSE, k.exc, {})
    ELSE IF RequestRaises(up, env)
    THEN FetchResult(k, TRUE, IBKRRequestError, {})
    ELSE FetchResult(k, TRUE, NoError, env.dates)

\* get_news_articles: reqContractDetailsAsync propagates its failure; a failure
\* of the news requests is logged and yields the empty list.
get_news_articles(c, up, env) ==
    LET k == EnsureConnected(c, up) IN
    IF k.exc # NoError THEN FetchResult(k, FALSE, k.exc, {})
    ELSE IF RequestRaises(up, env)
    THEN FetchResult(k, TRUE, IBKRRequestError, {})
    ELSE IF env.fail = "news"
    THEN FetchResult(k, TRUE, NoError, {})
    ELSE FetchResult(k, TRUE, NoError, env.dates)

\* get_company_info: {} without contract details, else the details (val: truthy).
get_company_info(c, up, env) ==
    LET k == EnsureConnected(c, up) IN
    IF k.exc # NoError THEN FetchResult(k, FALSE, k.exc, FALSE)
    ELSE IF RequestRaises(up, env)
    THEN FetchResult(k, TRUE, IBKRRequestError, FALSE)
    ELSE FetchResult(k, TRUE, NoError, env.dates # {})

\* get_fundamentals: a failing request is logged and yields {}; a successful one
\* yields {'fundamentals': ...}, which is truthy whatever the report holds.
get_fundamentals(c, up, env) ==
    LET k == EnsureConnected(c, up) IN
    IF k.exc # NoError THEN FetchResult(k, FALSE, k.exc, FALSE)
    ELSE IF RequestRaises(up, env)
    THEN FetchResult(k, TRUE, NoError, FALSE)
    ELSE FetchResult(k, TRUE, NoError, TRUE)

\* get_real_time_data: {} when the ticker holds no data.
get_real_time_data(c, up, env) ==
    LET k == EnsureConnected(c, up) IN
    IF k.exc # NoError THEN FetchResult(k, FALSE, k.exc, FALSE)
    ELSE IF RequestRaises(up, env)
    THEN FetchResult(k, TRUE, IBKRRequestError, FALSE)
    ELSE FetchResult(k, TRUE, NoError, env.dates # {})

\* ---------------------------------------------------- ibkr_utils, module level
\* get_ibkr_connection: the handle is created on first use.
get_ibkr_connection(h) == IF ~h.exists THEN NewConnection ELSE h

\* start_date <= date_str <= end_date
InRange(dates, r) == { d \in dates : r.start <= d /\ d <= r.end }

\* The dict grouped by date built from the records with these dates.
Grouped(dates, payload) == Dict({ <<d, payload>> : d \in dates })

\* {end_date: data} if data else {}
AtEnd(truthy, r) == IF truthy THEN Dict({<<r.end, "ibkr">>}) ELSE EmptyDict

\* Mutant: the connection is established before data_type is looked at.
UnknownDataTypeConnects(c, up) ==
    LET k == EnsureConnected(c, up) IN
    [conn |-> k.conn, exc |-> k.exc,
     ret |-> IF k.exc = NoError THEN EmptyDict ELSE None]

\* The else branch of get_ibkr_data_in_range: a warning is logged and {} is
\* returned; the connection is not used.
UnknownDataType(c, up) == [conn |-> c, exc |-> NoError, ret |-> EmptyDict]

\* The if/elif chain of get_ibkr_data_in_range on a connection c:
\* [conn, exc, ret].
IbkrDispatch(r, c, up, env) ==
    IF r.kind = "news"
    THEN LET m == get_news_articles(c, up, env) IN
         [conn |-> m.conn, exc |-> m.exc,
          ret |-> IF m.exc = NoError THEN Grouped(InRange(m.val, r), "ibkr") ELSE None]
    ELSE IF r.kind = "historical"
    THEN LET m == get_historical_data(c, up, env) IN
         [conn |-> m.conn, exc |-> m.exc,
          ret |-> IF m.exc = NoError THEN Grouped(InRange(m.val, r), "ibkr") ELSE None]
    ELSE IF r.kind = "fundamentals"
    THEN LET m == get_fundamentals(c, up, env) IN
         [conn |-> m.conn, exc |-> m.exc,
          ret |-> IF m.exc = NoError THEN AtEnd(m.val, r) ELSE None]
    ELSE IF r.kind = "company_info"
    THEN LET m == get_company_info(c, up, env) IN
         [conn |-> m.conn, exc |-> m.exc,
          ret |-> IF m.exc = NoError THEN AtEnd(m.val, r) ELSE None]
    ELSE IF r.kind = "real_time"
    THEN LET m == get_real_time_data(c, up, env) IN
         [conn |-> m.conn, exc |-> m.exc,
          ret |-> IF m.exc = NoError THEN AtEnd(m.val, r) ELSE None]
    ELSE UnknownDataType(c, up)

\* get_ibkr_data_in_range(ticker, start_date, end_date, data_type):
\* [ret, exc, handle]; the except clause logs and re-raises.
get_ibkr_data_in_range(r, h, up, env) ==
    LET m == IbkrDispatch(r, get_ibkr_connection(h), up, env)
    IN  [ret |-> m.ret, exc |-> m.exc, handle |-> m.conn]

\* cleanup_ibkr_connection: [handle, dropped, loop, exc]. With a handle stored,
\* asyncio.run(disconnect()) runs in a loop of its own, which leaves the thread
\* without a current loop; the handle is dropped (dropped: the object let go).
cleanup_ibkr_connection(h, lp) ==
    IF h.exists
    THEN [handle |-> NoConnection, dropped |-> disconnect(h), loop |-> "none",
          exc |-> NoError]
    ELSE [handle |-> h, dropped |-> NoConnection, loop |-> lp, exc |-> NoError]

\* ------------------------------------------- data_source_manager.DataSourceManager
\* DataSourceManager.__init__: the configuration is read once, at construction.
DataSourceManager(cfg) ==
    [exists |-> TRUE, primary_source |-> cfg.data_source,
     enable_fallback |-> cfg.enable_fallback]

\* get_data_source_manager: the process-wide manager is created on first use.
get_data_source_manager(m, cfg) == IF ~m.exists THEN DataSourceManager(cfg) ELSE m

\* Mutant: the fallback goes to the primary provider again.
FallbackSourceSame(m) == m.primary_source

\* fallback_source = "finnhub" if self.primary_source == "ibkr" else "ibkr"
FallbackSource(m) == IF m.primary_source = "ibkr" THEN "finnhub" ELSE "ibkr"

\* What _get_ibkr_data hands to get_ibkr_data_in_range.
IbkrArgs(r) ==
    [ticker |-> r.ticker, start |-> r.start, end |-> r.end, kind |-> r.kind]

\* Mutant: start_date and end_date handed over in the wrong order.
FinnhubArgsSwapped(r) ==
    [ticker |-> r.ticker, start |-> r.end, end |-> r.start, kind |-> r.kind,
     data_dir |-> IF r.data_dir = "None" THEN DATA_DIR ELSE r.data_dir]

\* What _get_finnhub_data hands to get_finnhub_data_in_range: a data_dir of None
\* becomes config.DATA_DIR.
FinnhubArgs(r) ==
    [ticker |-> r.ticker, start |-> r.start, end |-> r.end, kind |-> r.kind,
     data_dir |-> IF r.data_dir = "None" THEN DATA_DIR ELSE r.data_dir]

\* finnhub_utils.get_data_in_range, the file-backed provider: it raises or
\* returns whatever mapping the files hold.
get_finnhub_data_in_range(a, env) ==
    IF env.fail # "none"
    THEN [ret |-> None, exc |-> FinnhubError]
    ELSE [ret |-> Grouped(env.dates, "finnhub"), exc |-> NoError]

\* One provider invocation made by get_data_in_range, with its record in calls
\* (the arguments handed over, what came back, and whether the broker was up).
Fetch(source, r, h, up, env) ==
    IF source = "ibkr"
    THEN LET a == IbkrArgs(r)
             f == get_ibkr_data_in_range(a, h, up, env)
         IN  [ret |-> f.ret, exc |-> f.exc, handle |-> f.handle,
              call |-> [src |-> "ibkr", args |-> a, ret |-> f.ret, exc |-> f.exc,
                        up |-> up]]
    ELSE LET a == FinnhubArgs(r)
             f == get_finnhub_data_in_range(a, env)
         IN  [ret |-> f.ret, exc |-> f.exc, handle |-> h,
              call |-> [src |-> "finnhub", args |-> a, ret |-> f.ret,
                        exc |-> f.exc, up |-> up]]

\* Mutant: the primary's data is never returned before the fallback is tried.
ReturnsPrimaryNever(pd) == FALSE

\* "if primary_data: return primary_data"
ReturnsPrimary(pd) == Truthy(pd)

\* Mutant: the fallback is tried only after an empty result, not after a failure.
ShouldFallbackOnEmptyOnly(m, pd, pe) ==
    m.enable_fallback /\ ~Truthy(pd) /\ pe = NoError

\* Mutant: enable_fallback is not consulted.
ShouldFallbackAlways(m, pd, pe) == ~Truthy(pd) \/ pe # NoError

\* Mutant: the fallback is tried only after a failure, not after an empty result.
ShouldFallbackOnErrorOnly(m, pd, pe) == m.enable_fallback /\ pe # NoError

\* "if self.enable_fallback and (not primary_data or primary_error)"
ShouldFallback(m, pd, pe) == m.enable_fallback /\ (~Truthy(pd) \/ pe # NoError)

\* Mutant: when both providers failed, the later failure is the one raised.
AfterFallbackRaisesLatest(pe, fb) ==
    IF fb.exc = NoError /\ Truthy(fb.ret)
    THEN Return("get_data_in_range", fb.ret)
    ELSE IF pe # NoError
    THEN Raise("get_data_in_range", IF fb.exc # NoError THEN fb.exc ELSE pe)
    ELSE Return("get_data_in_range", EmptyDict)

\* Mutant: a fallback failure is recorded as the failure to raise when the
\* primary recorded none.
AfterFallbackKeepsFailure(pe, fb) ==
    IF fb.exc = NoError /\ Truthy(fb.ret)
    THEN Return("get_data_in_range", fb.ret)
    ELSE IF pe # NoError
    THEN Raise("get_data_in_range", pe)
    ELSE IF fb.exc # NoError
    THEN Raise("get_data_in_range", fb.exc)
    ELSE Return("get_data_in_range", EmptyDict)

\* The rest of get_data_in_range once the fallback provider has answered fb
\* ([ret, exc]): a truthy fallback result is returned, a fallback failure is
\* only logged, then the primary's failure is re-raised or {} returned.
AfterFallback(pe, fb) ==
    IF fb.exc = NoError /\ Truthy(fb.ret)
    THEN Return("get_data_in_range", fb.ret)
    ELSE IF pe # NoError
    THEN Raise("get_data_in_range", pe)
    ELSE Return("get_data_in_range", EmptyDict)

\* The end of get_data_in_range when no fallback is attempted.
WithoutFallback(pe) ==
    IF pe # NoError
    THEN Raise("get_data_in_range", pe)
    ELSE Return("get_data_in_range", EmptyDict)

\* DataSourceManager.cleanup: cleanup_ibkr_connection, any failure of it logged
\* and not raised.
cleanup(h, lp) ==
    [cleanup_ibkr_connection(h, lp) EXCEPT !.exc = NoError]

\* Mutant: no test for a missing manager, so None.cleanup() raises.
cleanup_data_sources_unguarded(m, h, lp) ==
    IF m.exists
    THEN LET c == cleanup(h, lp)
         IN  [manager |-> NoManager, handle |-> c.handle, dropped |-> c.dropped,
              loop |-> c.loop, exc |-> c.exc]
    ELSE [manager |-> m, handle |-> h, dropped |-> NoConnection, loop |-> lp,
          exc |-> "AttributeError"]

\* cleanup_data_sources: [manager, handle, dropped, loop, exc].
cleanup_data_sources(m, h, lp) ==
    IF m.exists
    THEN LET c == cleanup(h, lp)
         IN  IF c.exc = NoError
             THEN [manager |-> NoManager, handle |-> c.handle,
                   dropped |-> c.dropped, loop |-> c.loop, exc |-> NoError]
             ELSE [manager |-> m, handle |-> c.handle, dropped |-> c.dropped,
                   loop |-> c.loop, exc |-> c.exc]
    ELSE [manager |-> m, handle |-> h, dropped |-> NoConnection, loop |-> lp,
          exc |-> NoError]

\* ------------------------------------------------------------- the program
Init ==
    /\ config \in Configs
    /\ data_source_manager = NoManager
    /\ ibkr_connection = NoConnection
    /\ open_sessions = 0
    /\ loop = "unset"
    /\ reachable \in BOOLEAN
    /\ pc = "idle"
    /\ via = "none"
    /\ mgr = NoManager
    /\ req = NoRequest
    /\ primary_data = None
    /\ primary_error = NoError
    /\ calls = <<>>
    /\ last = Return("none", None)
    /\ race_global = 0
    /\ race_objs = <<>>
    /\ race_pc = [t \in Callers |-> "test"]
    /\ race_mine = [t \in Callers |-> 0]
    /\ race_ret = [t \in Callers |-> 0]
    /\ race_cleaned = 0
    /\ conn_obj = NewConnection
    /\ conn_hist = [attempt |-> "none", disc |-> FALSE]
    /\ conn_last = [op |-> "none", before |-> NewConnection, up |-> FALSE,
                    exc |-> NoError, tried |-> FALSE, requested |-> FALSE]

\* The module's handle becomes h and the object dropped stays as it was let go:
\* the sessions of both are the sessions open from now on.
Store(h, dropped) ==
    /\ ibkr_connection' = h
    /\ open_sessions' = (open_sessions + Sessions(h) + Sessions(dropped))
                             - Sessions(ibkr_connection)

\* The caller gets the outcome o; the loop that ran the coroutine is closed by
\* the wrapper's finally clause, or closed and unset by asyncio.run.
Complete(o) ==
    /\ last' = o
    /\ pc' = "done"
    /\ loop' = IF via = "wrapper" THEN "closed" ELSE "none"

\* get_data_in_range_with_fallback(r), up to the start of the coroutine.
\* asyncio.get_event_loop() yields the thread's current loop, a new one when
\* there is none; run_until_complete on a closed loop raises RuntimeError and
\* the coroutine never runs.
CallWrapper(r) ==
    /\ UNCHANGED <<raceVars, connVars>>
    /\ pc = "idle"
    /\ data_source_manager' = get_data_source_manager(data_source_manager, config)
    /\ mgr' = data_source_manager'
    /\ via' = "wrapper"
    /\ req' = r
    /\ primary_data' = None
    /\ primary_error' = NoError
    /\ calls' = <<>>
    /\ IF loop = "closed"
       THEN /\ last' = Raise("get_data_in_range_with_fallback", LoopClosedError)
            /\ pc' = "done"
            /\ UNCHANGED loop
       ELSE /\ last' = Running
            /\ pc' = "primary"
            /\ loop' = "open"
    /\ UNCHANGED <<config, ibkr_connection, open_sessions, reachable>>

\* asyncio.run(DataSourceManager().get_data_in_range(r)): a caller's own manager.
CallManager(r) ==
    /\ UNCHANGED <<raceVars, connVars>>
    /\ pc = "idle"
    /\ mgr' = DataSourceManager(config)
    /\ via' = "manager"
    /\ req' = r
    /\ primary_data' = None
    /\ primary_error' = NoError
    /\ calls' = <<>>
    /\ pc' = "primary"
    /\ loop' = "open"
    /\ last' = Running
    /\ UNCHANGED <<config, data_source_manager, ibkr_connection, open_sessions, reachable>>

\* asyncio.run(get_ibkr_data_in_range(r)): the broker provider called directly.
CallIbkr(r) ==
    /\ UNCHANGED <<raceVars, connVars>>
    /\ pc = "idle"
    /\ via' = "ibkr"
    /\ req' = r
    /\ calls' = <<>>
    /\ pc' = "ibkr"
    /\ loop' = "open"
    /\ last' = Running
    /\ UNCHANGED <<config, data_source_manager, ibkr_connection, open_sessions, reachable,
                   mgr, primary_data, primary_error>>

\* get_data_in_range, "Try primary source first".
PrimaryFetch ==
    /\ UNCHANGED <<raceVars, connVars>>
    /\ pc = "primary"
    /\ \E env \in Envs :
        LET f == Fetch(mgr.primary_source, req, ibkr_connection, reachable, env)
        IN  /\ calls' = Append(calls, f.call)
            /\ Store(f.handle, NoConnection)
            /\ primary_data' = f.ret
            /\ primary_error' = f.exc
            /\ IF f.exc = NoError /\ ReturnsPrimary(f.ret)
               THEN Complete(Return("get_data_in_range", f.ret))
               ELSE pc' = "fallback" /\ UNCHANGED <<last, loop>>
    /\ UNCHANGED <<config, data_source_manager, reachable, via, mgr, req>>

\* get_data_in_range, "Try fallback if enabled and primary failed", to its end.
FallbackFetch ==
    /\ UNCHANGED <<raceVars, connVars>>
    /\ pc = "fallback"
    /\ IF ShouldFallback(mgr, primary_data, primary_error)
       THEN \E env \in Envs :
            LET f == Fetch(FallbackSource(mgr), req, ibkr_connection, reachable, env)
            IN  /\ calls' = Append(calls, f.call)
                /\ Store(f.handle, NoConnection)
                /\ Complete(AfterFallback(primary_error, f))
       ELSE /\ Complete(WithoutFallback(primary_error))
            /\ UNCHANGED <<calls, ibkr_connection, open_sessions>>
    /\ UNCHANGED <<config, data_source_manager, reachable, via, mgr, req,
                   primary_data, primary_error>>

\* The body of a direct get_ibkr_data_in_range call.
IbkrFetch ==
    /\ UNCHANGED <<raceVars, connVars>>
    /\ pc = "ibkr"
    /\ \E env \in Envs :
        LET a == IbkrArgs(req)
            f == get_ibkr_data_in_range(a, ibkr_connection, reachable, env)
        IN  /\ calls' = Append(calls, [src |-> "ibkr", args |-> a, ret |-> f.ret,
                                       exc |-> f.exc, up |-> reachable])
            /\ Store(f.handle, NoConnection)
            /\ Complete(IF f.exc = NoError
                        THEN Return("get_ibkr_data_in_range", f.ret)
                        ELSE Raise("get_ibkr_data_in_range", f.exc))
    /\ UNCHANGED <<config, data_source_manager, reachable, via, mgr, req,
                   primary_data, primary_error>>

\* The caller takes the outcome of its request and goes on; the request's
\* frame (arguments, locals, the record of its provider calls) is gone.
Resume ==
    /\ UNCHANGED <<raceVars, connVars>>
    /\ pc = "done"
    /\ pc' = "idle"
    /\ via' = "none"
    /\ mgr' = NoManager
    /\ req' = NoRequest
    /\ primary_data' = None
    /\ primary_error' = NoError
    /\ calls' = <<>>
    /\ last' = Return("none", None)
    /\ UNCHANGED <<config, data_source_manager, ibkr_connection, open_sessions, loop,
                   reachable>>

\* cleanup_ibkr_connection()
CleanupIbkrConnection ==
    /\ UNCHANGED <<raceVars, connVars>>
    /\ pc = "idle"
    /\ LET c == cleanup_ibkr_connection(ibkr_connection, loop)
       IN  /\ Store(c.handle, c.dropped)
           /\ loop' = c.loop
           /\ last' = Cleaned("cleanup_ibkr_connection", c.exc, last)
    /\ UNCHANGED <<config, data_source_manager, reachable, pc, via, mgr, req,
                   primary_data, primary_error, calls>>

\* manager.cleanup() on the process-wide manager
CleanupManager ==
    /\ UNCHANGED <<raceVars, connVars>>
    /\ pc = "idle"
    /\ data_source_manager.exists
    /\ LET c == cleanup(ibkr_connection, loop)
       IN  /\ Store(c.handle, c.dropped)
           /\ loop' = c.loop
           /\ last' = Cleaned("cleanup", c.exc, last)
    /\ UNCHANGED <<config, data_source_manager, reachable, pc, via, mgr, req,
                   primary_data, primary_error, calls>>

\* cleanup_data_sources()
CleanupDataSources ==
    /\ UNCHANGED <<raceVars, connVars>>
    /\ pc = "idle"
    /\ LET c == cleanup_data_sources(data_source_manager, ibkr_connection, loop)
       IN  /\ data_source_manager' = c.manager
           /\ Store(c.handle, c.dropped)
           /\ loop' = c.loop
           /\ last' = Cleaned("cleanup_data_sources", c.exc, last)
    /\ UNCHANGED <<config, reachable, pc, via, mgr, req, primary_data,
                   primary_error, calls>>

\* The environment: TWS/Gateway goes down or comes up.
BrokerToggle ==
    /\ reachable' = ~reachable
    /\ UNCHANGED <<raceVars, connVars>>
    /\ UNCHANGED <<config, data_source_manager, ibkr_connection, open_sessions, loop, pc,
                   via, mgr, req, primary_data, primary_error, calls, last>>

Next ==
    \/ \E r \in ValidRequests : CallWrapper(r)
    \/ \E r \in ValidRequests : CallManager(r)
    \/ \E r \in ValidRequests : CallIbkr(r)
    \/ PrimaryFetch
    \/ FallbackFetch
    \/ IbkrFetch
    \/ Resume
    \/ CleanupIbkrConnection
    \/ CleanupManager
    \/ CleanupDataSources
    \/ BrokerToggle

Spec == Init /\ [][Next]_vars

\* ------------------------------------------------------------- properties
\* A get_data_in_range coroutine has run to its end; calls records its provider
\* invocations and last what its caller gets.
Finished == pc = "done" /\ last.op = "get_data_in_range"

\* The invocations of the configured primary, and of the other provider.
PrimaryCalls == { i \in DOMAIN calls : calls[i].src = config.data_source }
SecondaryCalls == { i \in DOMAIN calls : calls[i].src # config.data_source }

PrimaryRaised == \E i \in PrimaryCalls : calls[i].exc # NoError
PrimaryEmpty ==
    \E i \in PrimaryCalls : calls[i].exc = NoError /\ calls[i].ret = EmptyDict
PrimaryNonEmpty ==
    \E i \in PrimaryCalls :
        /\ calls[i].exc = NoError
        /\ calls[i].ret.tag = "dict"
        /\ calls[i].ret.items # {}
SecondaryRaised == \E j \in SecondaryCalls : calls[j].exc # NoError
SecondaryEmpty ==
    \E j \in SecondaryCalls : calls[j].exc = NoError /\ calls[j].ret = EmptyDict

\* C1: when the primary provider raises and enable_fallback is true, the
\* provider that is not the configured primary is invoked exactly once during
\* the request.
C1_SecondaryInvokedOnce ==
    (Finished /\ config.enable_fallback /\ PrimaryRaised)
        => Cardinality(SecondaryCalls) = 1

C1_Witness ==
    /\ Finished
    /\ config.enable_fallback
    /\ PrimaryRaised
    /\ SecondaryCalls # {}

\* C2: when the primary raises and the secondary raises too, the request ends
\* by raising the primary's exception, not the secondary's.
C2_PrimaryErrorPropagates ==
    (Finished /\ PrimaryRaised /\ SecondaryRaised)
        => /\ last.kind = "raise"
           /\ \A i \in PrimaryCalls : last.exc = calls[i].exc
           /\ \A j \in SecondaryCalls : last.exc # calls[j].exc

C2_Witness == Finished /\ PrimaryRaised /\ SecondaryRaised /\ last.kind = "raise"

\* C3: with enable_fallback false and the primary raising, the request re-raises
\* the primary's exception and the secondary is never invoked.
C3_NoFallbackReraises ==
    (Finished /\ ~config.enable_fallback /\ PrimaryRaised)
        => /\ last.kind = "raise"
           /\ \A i \in PrimaryCalls : last.exc = calls[i].exc
           /\ SecondaryCalls = {}

C3_Witness ==
    /\ Finished
    /\ ~config.enable_fallback
    /\ PrimaryRaised
    /\ last.exc \in IbkrErrors \cup {FinnhubError}

\* C4: when the primary returns a non-empty result, the request returns exactly
\* that result and the secondary is never invoked, fallback enabled or not.
C4_PrimaryDataReturned ==
    (Finished /\ PrimaryNonEmpty)
        => /\ last.kind = "return"
           /\ \A i \in PrimaryCalls : last.ret = calls[i].ret
           /\ SecondaryCalls = {}

C4_Witness ==
    /\ Finished
    /\ PrimaryNonEmpty
    /\ ~config.enable_fallback
    /\ last.kind = "return"

\* C5: when the primary returns an empty result without raising and
\* enable_fallback is true, the secondary is invoked; if it returns an empty
\* result too, the request returns an empty mapping and raises nothing.
C5_EmptyPrimaryFallsBack ==
    (Finished /\ config.enable_fallback /\ PrimaryEmpty)
        => /\ SecondaryCalls # {}
           /\ SecondaryEmpty => last = Return("get_data_in_range", EmptyDict)

C5_Witness ==
    /\ Finished
    /\ config.enable_fallback
    /\ PrimaryEmpty
    /\ SecondaryEmpty
    /\ last.kind = "return"

\* C6: an exception raised by the secondary never reaches the caller; when the
\* primary returned an empty result and the secondary raises, the request
\* returns an empty mapping.
C6_SecondaryErrorSwallowed ==
    Finished
        => /\ last.kind = "raise"
                => \A j \in SecondaryCalls : last.exc # calls[j].exc
           /\ (PrimaryEmpty /\ SecondaryRaised)
                => last = Return("get_data_in_range", EmptyDict)

C6_Witness == Finished /\ PrimaryEmpty /\ SecondaryRaised /\ last.kind = "return"

\* C7: when the primary fails and fallback is enabled, the secondary is invoked
\* with the request's ticker, start date, end date and data kind, and a
\* non-empty result of it is what the caller gets, unmodified.
C7_FallbackSameRequest ==
    (Finished /\ config.enable_fallback /\ PrimaryRaised)
        => /\ SecondaryCalls # {}
           /\ \A j \in SecondaryCalls :
                /\ calls[j].args.ticker = req.ticker
                /\ calls[j].args.start = req.start
                /\ calls[j].args.end = req.end
                /\ calls[j].args.kind = req.kind
                /\ Truthy(calls[j].ret)
                     => last = Return("get_data_in_range", calls[j].ret)

C7_Witness ==
    /\ Finished
    /\ config.enable_fallback
    /\ PrimaryRaised
    /\ \E j \in SecondaryCalls : Truthy(calls[j].ret) /\ last.ret = calls[j].ret
    /\ req.start < req.end

\* C8: once cleanup_data_sources has returned, no IBKR connection handle is
\* stored process-wide and every broker session that was opened is closed.
C8_CleanupReleasesConnection ==
    (pc = "idle" /\ last.op = "cleanup_data_sources")
        => ~ibkr_connection.exists /\ open_sessions = 0

\* The state shared process-wide (thread-wide for the loop).
ProcessWide == <<data_source_manager, ibkr_connection, open_sessions, loop>>

\* C9: cleanup_data_sources and cleanup_ibkr_connection, called when no manager
\* and no connection exists, or a second time in a row, raise nothing and leave
\* the process-wide state as it is.
C9_CleanupIdempotent ==
    [][ ( /\ last'.op \in {"cleanup_data_sources", "cleanup_ibkr_connection"}
          /\ \/ ~data_source_manager.exists /\ ~ibkr_connection.exists
             \/ last'.again )
        => (last'.kind = "return" /\ ProcessWide' = ProcessWide) ]_vars

C9_Witness ==
    /\ pc = "idle"
    /\ last.op \in {"cleanup_data_sources", "cleanup_ibkr_connection"}
    /\ last.again
    /\ last.kind = "return"
    /\ ~data_source_manager.exists
    /\ ~ibkr_connection.exists

\* C10: a get_ibkr_data_in_range request for a data kind it does not know
\* returns an empty result and raises nothing, broker reachable or not.
C10_UnknownKindEmpty ==
    pc = "done"
        => \A i \in DOMAIN calls :
             (calls[i].src = "ibkr" /\ calls[i].args.kind \notin KnownKinds)
                => /\ calls[i].exc = NoError
                   /\ calls[i].ret = EmptyDict
                   /\ last.op = "get_ibkr_data_in_range"
                        => last = Return("get_ibkr_data_in_range", EmptyDict)

C10_Witness ==
    /\ pc = "done"
    /\ last.op = "get_ibkr_data_in_range"
    /\ req.kind \notin KnownKinds
    /\ \E i \in DOMAIN calls : ~calls[i].up
    /\ last.kind = "return"

\* C12: within one request the primary is invoked exactly once and before any
\* invocation of the secondary; the secondary is invoked at most once and only
\* once the primary call has returned or raised; no provider is called again.
C12_PrimaryThenSecondaryOnce ==
    /\ pc = "primary" => calls = <<>>
    /\ pc = "fallback"
         => /\ Len(calls) = 1
            /\ calls[1].src = config.data_source
            /\ calls[1].exc # NoError \/ calls[1].ret.tag = "dict"
    /\ Finished
         => /\ Cardinality(PrimaryCalls) = 1
            /\ calls[1].src = config.data_source
            /\ Cardinality(SecondaryCalls) <= 1
            /\ \A j \in SecondaryCalls : j = 2
            /\ Len(calls) <= 2

C12_Witness ==
    /\ Finished
    /\ Len(calls) = 2
    /\ calls[1].src = config.data_source
    /\ calls[2].src # config.data_source

\* C13: every call of get_data_in_range_with_fallback, a call made after earlier
\* calls on the thread returned included, runs get_data_in_range to its end and
\* gives its caller the selector's outcome.
C13_WrapperRunsSelector ==
    (pc = "done" /\ via = "wrapper")
        => /\ last.op = "get_data_in_range"
           /\ calls # <<>>
           /\ last.exc # LoopClosedError

-----------------------------------------------------------------------------
\* Threads racing through get_ibkr_connection

StoreHandleLocal(g, obj) == g

\* "_ibkr_connection = ..." under "global _ibkr_connection": the store replaces
\* whatever the global held.
StoreHandle(g, obj) == obj

\* "if _ibkr_connection is None:"
RaceTest(t) ==
    /\ race_pc[t] = "test"
    /\ race_pc' = [race_pc EXCEPT ![t] = IF race_global = 0 THEN "construct" ELSE "return"]
    /\ UNCHANGED <<race_global, race_objs, race_mine, race_ret, race_cleaned>>
    /\ UNCHANGED <<mainVars, connVars>>

\* The right-hand side "IBKRConnection()": a new object, not yet stored.
RaceConstruct(t) ==
    /\ race_pc[t] = "construct"
    /\ race_objs' = Append(race_objs, NewConnection)
    /\ race_mine' = [race_mine EXCEPT ![t] = Len(race_objs) + 1]
    /\ race_pc' = [race_pc EXCEPT ![t] = "store"]
    /\ UNCHANGED <<race_global, race_ret, race_cleaned>>
    /\ UNCHANGED <<mainVars, connVars>>

\* The assignment to the global.
RaceStore(t) ==
    /\ race_pc[t] = "store"
    /\ race_global' = StoreHandle(race_global, race_mine[t])
    /\ race_pc' = [race_pc EXCEPT ![t] = "return"]
    /\ UNCHANGED <<race_objs, race_mine, race_ret, race_cleaned>>
    /\ UNCHANGED <<mainVars, connVars>>

\* "return _ibkr_connection": the global is read again.
RaceReturn(t) ==
    /\ race_pc[t] = "return"
    /\ race_ret' = [race_ret EXCEPT ![t] = race_global]
    /\ race_pc' = [race_pc EXCEPT ![t] = "use"]
    /\ UNCHANGED <<race_global, race_objs, race_mine, race_cleaned>>
    /\ UNCHANGED <<mainVars, connVars>>

\* The caller's fetch connects the object it was handed.
RaceUse(t) ==
    /\ race_pc[t] = "use"
    /\ race_objs' = IF race_ret[t] \in DOMAIN race_objs
                     THEN [race_objs EXCEPT ![race_ret[t]] = EnsureConnected(@, reachable).conn]
                     ELSE race_objs
    /\ race_pc' = [race_pc EXCEPT ![t] = "done"]
    /\ UNCHANGED <<race_global, race_mine, race_ret, race_cleaned>>
    /\ UNCHANGED <<mainVars, connVars>>

\* cleanup_ibkr_connection once every thread has its data: it disconnects the
\* object the global names and sets the global to None.
RaceCleanup ==
    /\ \A t \in Callers : race_pc[t] = "done"
    /\ race_global \in DOMAIN race_objs
    /\ race_objs' = [race_objs EXCEPT ![race_global] = disconnect(@)]
    /\ race_cleaned' = race_global
    /\ race_global' = 0
    /\ UNCHANGED <<race_pc, race_mine, race_ret>>
    /\ UNCHANGED <<mainVars, connVars>>

RaceNext ==
    \/ \E t \in Callers : RaceTest(t)
    \/ \E t \in Callers : RaceConstruct(t)
    \/ \E t \in Callers : RaceStore(t)
    \/ \E t \in Callers : RaceReturn(t)
    \/ \E t \in Callers : RaceUse(t)
    \/ RaceCleanup
    \/ BrokerToggle

SpecRace == Init /\ [][RaceNext]_vars

RaceReturned == \A t \in Callers : race_pc[t] \in {"use", "done"}

\* C11: get_ibkr_connection takes no lock. Each thread that saw None constructs
\* its own object; once every thread has returned, the global names exactly one
\* of the constructed objects (the one stored last), every thread was handed a
\* constructed object, and cleanup reaches only the stored one: it closes that
\* object's session and changes no other object.
C11_RaceKeepsLastStored ==
    /\ Len(race_objs) = Cardinality({t \in Callers : race_mine[t] # 0})
    /\ (RaceReturned /\ race_cleaned = 0)
          => /\ race_global \in DOMAIN race_objs
             /\ \E t \in Callers : race_mine[t] = race_global
             /\ \A t \in Callers : race_ret[t] \in DOMAIN race_objs
    /\ race_cleaned # 0
          => /\ race_global = 0
             /\ ~race_objs[race_cleaned].connected
             /\ ~race_objs[race_cleaned].session

\* Two objects were constructed, both got a broker session through the thread
\* that was handed them, and the global names only one of them.
C11_Witness ==
    /\ \A t \in Callers : race_pc[t] = "done"
    /\ Len(race_objs) = 2
    /\ race_global \in DOMAIN race_objs
    /\ \A o \in DOMAIN race_objs : race_objs[o].session
    /\ \E t \in Callers : race_ret[t] # race_global

-----------------------------------------------------------------------------
\* One IBKRConnection, its methods called in any order

FetchMethods == {"get_historical_data", "get_news_articles", "get_company_info",
                 "get_fundamentals", "get_real_time_data"}

\* The data-fetch method of that name.
FetchMethod(name, c, up, env) ==
    CASE name = "get_historical_data" -> get_historical_data(c, up, env)
      [] name = "get_news_articles"   -> get_news_articles(c, up, env)
      [] name = "get_company_info"    -> get_company_info(c, up, env)
      [] name = "get_fundamentals"    -> get_fundamentals(c, up, env)
      [] name = "get_real_time_data"  -> get_real_time_data(c, up, env)

\* What a connect attempt leaves in the history: it succeeded iff it did not raise.
Attempted(e) ==
    [attempt |-> IF e = NoError THEN "ok" ELSE "failed", disc |-> FALSE]

\* await conn.connect()
ConnConnect ==
    /\ LET k == connect(conn_obj, reachable) IN
         /\ conn_obj' = k.conn
         /\ conn_hist' = Attempted(k.exc)
         /\ conn_last' = [op |-> "connect", before |-> conn_obj, up |-> reachable,
                          exc |-> k.exc, tried |-> TRUE, requested |-> FALSE]
    /\ UNCHANGED <<mainVars, raceVars>>

\* await conn.disconnect()
ConnDisconnect ==
    /\ conn_obj' = disconnect(conn_obj)
    /\ conn_hist' = [conn_hist EXCEPT !.disc = TRUE]
    /\ conn_last' = [op |-> "disconnect", before |-> conn_obj, up |-> reachable,
                     exc |-> NoError, tried |-> FALSE, requested |-> FALSE]
    /\ UNCHANGED <<mainVars, raceVars>>

\* await conn.get_...(ticker, ...)
ConnFetch(name, env) ==
    /\ LET f == FetchMethod(name, conn_obj, reachable, env) IN
         /\ conn_obj' = f.conn
         /\ conn_hist' = IF f.tried
                          THEN Attempted(IF f.requested THEN NoError ELSE f.exc)
                          ELSE conn_hist
         /\ conn_last' = [op |-> name, before |-> conn_obj, up |-> reachable,
                          exc |-> f.exc, tried |-> f.tried, requested |-> f.requested]
    /\ UNCHANGED <<mainVars, raceVars>>

ConnNext ==
    \/ ConnConnect
    \/ ConnDisconnect
    \/ \E name \in FetchMethods, env \in Envs : ConnFetch(name, env)
    \/ BrokerToggle

SpecConn == Init /\ [][ConnNext]_vars

\* C14: after any sequence of connect, disconnect and fetch calls on one
\* IBKRConnection: connected holds only if the latest connect attempt succeeded
\* and no disconnect followed it; a connect that fails leaves connected false and
\* raises; a fetch attempts connect exactly when connected is false and sends no
\* broker request when that connect fails; disconnect on a handle that is not
\* connected changes nothing.
C14_ConnectionLifecycle ==
    /\ conn_obj.connected => (conn_hist.attempt = "ok" /\ ~conn_hist.disc)
    /\ (conn_last.tried /\ ~conn_last.up)
          => /\ ~conn_obj.connected
             /\ conn_last.exc = ConnectionFailure
    /\ conn_last.op \in FetchMethods
          => /\ conn_last.tried <=> ~conn_last.before.connected
             /\ (conn_last.tried /\ ~conn_last.up) => ~conn_last.requested
    /\ (conn_last.op = "disconnect" /\ ~conn_last.before.connected)
          => conn_obj = conn_last.before

\* A fetch on a handle without a session found the broker gone: its connect
\* failed, nothing was requested, and the failure reached the caller.
C14_Witness ==
    /\ conn_last.op \in FetchMethods
    /\ conn_last.before.session = FALSE
    /\ conn_hist = [attempt |-> "failed", disc |-> FALSE]
    /\ conn_last.tried
    /\ ~conn_last.requested
    /\ conn_last.exc = ConnectionFailure
    /\ ~conn_obj.connected


====
